---- MODULE Spec2Model ----
(***************************************************************************)
(* A model of emailVerifier.js: the syntax validator, the typo corrector,  *)
(* the MX resolver, the SMTP prober (tryPort), the multi-port racer        *)
(* (verifyWithSMTP) and the orchestrator (verifyEmail).                    *)
(*                                                                         *)
(* Texts (JavaScript strings) are sequences of tokens.  An email address,  *)
(* a domain and the head of an SMTP response are spelled character by      *)
(* character; fixed messages are single tokens.                            *)
(***************************************************************************)
EXTENDS Integers, Sequences, FiniteSets, TLC

(***************************************************************************)
(* Static tables (emailVerifier.js lines 10-66).                           *)
(***************************************************************************)
\* COMMON_TYPOS in insertion order, each entry <<typo, correct>>.
COMMON_TYPOS ==
    << <<<<"g", "m", "i", "a", "l", ".", "c", "o", "m">>,
         <<"g", "m", "a", "i", "l", ".", "c", "o", "m">>>>,
       <<<<"g", "m", "a", "i", ".", "c", "o", "m">>,
         <<"g", "m", "a", "i", "l", ".", "c", "o", "m">>>>,
       <<<<"g", "m", "i", "l", ".", "c", "o", "m">>,
         <<"g", "m", "a", "i", "l", ".", "c", "o", "m">>>>,
       <<<<"g", "m", "a", "i", "l", ".", "c", "o">>,
         <<"g", "m", "a", "i", "l", ".", "c", "o", "m">>>>,
       <<<<"g", "m", "a", "i", "l", ".", "c", "m">>,
         <<"g", "m", "a", "i", "l", ".", "c", "o", "m">>>>,
       <<<<"y", "m", "a", "i", "l", ".", "c", "o", "m">>,
         <<"g", "m", "a", "i", "l", ".", "c", "o", "m">>>>,
       <<<<"y", "a", "h", "o", "o", "o", ".", "c", "o", "m">>,
         <<"y", "a", "h", "o", "o", ".", "c", "o", "m">>>>,
       <<<<"y", "a", "h", "o", ".", "c", "o", "m">>,
         <<"y", "a", "h", "o", "o", ".", "c", "o", "m">>>>,
       <<<<"y", "a", "h", "o", "o", ".", "c", "o">>,
         <<"y", "a", "h", "o", "o", ".", "c", "o", "m">>>>,
       <<<<"h", "o", "t", "m", "i", "a", "l", ".", "c", "o", "m">>,
         <<"h", "o", "t", "m", "a", "i", "l", ".", "c", "o", "m">>>>,
       <<<<"h", "o", "t", "m", "a", "i", "l", ".", "c", "o">>,
         <<"h", "o", "t", "m", "a", "i", "l", ".", "c", "o", "m">>>>,
       <<<<"h", "o", "t", "m", "i", "l", ".", "c", "o", "m">>,
         <<"h", "o", "t", "m", "a", "i", "l", ".", "c", "o", "m">>>>,
       <<<<"o", "u", "t", "l", "o", "k", ".", "c", "o", "m">>,
         <<"o", "u", "t", "l", "o", "o", "k", ".", "c", "o", "m">>>>,
       <<<<"o", "u", "t", "l", "o", "o", "k", ".", "c", "o">>,
         <<"o", "u", "t", "l", "o", "o", "k", ".", "c", "o", "m">>>>,
       <<<<"o", "u", "t", "l", "o", "o", ".", "c", "o", "m">>,
         <<"o", "u", "t", "l", "o", "o", "k", ".", "c", "o", "m">>>>,
       <<<<"o", "u", "t", "l", "o", "o", "k", ".", "c", "m">>,
         <<"o", "u", "t", "l", "o", "o", "k", ".", "c", "o", "m">>>>,
       <<<<"g", "o", "g", "g", "l", "e", ".", "c", "o", "m">>,
         <<"g", "o", "o", "g", "l", "e", ".", "c", "o", "m">>>>,
       <<<<"i", "c", "l", "o", "u", "d", ".", "c", "m">>,
         <<"i", "c", "l", "o", "u", "d", ".", "c", "o", "m">>>>,
       <<<<"p", "r", "o", "t", "o", "n", "m", "a", "i", "l", ".", "c", "o">>,
         <<"p", "r", "o", "t", "o", "n", "m", "a", "i", "l", ".", "c", "o", "m">>>>,
       <<<<"a", "o", "l", ".", "c", "o", "m">>,
         <<"a", "o", "l", ".", "c", "o", "m">>>> >>

DISPOSABLE_DOMAINS ==
    { <<"m", "a", "i", "l", "i", "n", "a", "t", "o", "r", ".", "c", "o", "m">>,
      <<"1", "0", "m", "i", "n", "u", "t", "e", "m", "a", "i", "l", ".", "c", "o", "m">>,
      <<"g", "u", "e", "r", "r", "i", "l", "l", "a", "m", "a", "i", "l", ".", "c", "o", "m">>,
      <<"t", "e", "m", "p", "-", "m", "a", "i", "l", ".", "o", "r", "g">>,
      <<"d", "r", "o", "p", "m", "a", "i", "l", ".", "m", "e">>,
      <<"y", "o", "p", "m", "a", "i", "l", ".", "c", "o", "m">>,
      <<"t", "r", "a", "s", "h", "m", "a", "i", "l", ".", "c", "o", "m">>,
      <<"d", "i", "s", "p", "o", "s", "t", "a", "b", "l", "e", ".", "c", "o", "m">>,
      <<"g", "e", "t", "n", "a", "d", "a", ".", "c", "o", "m">>,
      <<"m", "a", "i", "l", "d", "r", "o", "p", ".", "c", "c">> }

ROLE_ACCOUNTS ==
    { <<"a", "d", "m", "i", "n">>,
      <<"a", "d", "m", "i", "n", "i", "s", "t", "r", "a", "t", "o", "r">>,
      <<"s", "u", "p", "p", "o", "r", "t">>,
      <<"i", "n", "f", "o">>,
      <<"s", "a", "l", "e", "s">>,
      <<"b", "i", "l", "l", "i", "n", "g">>,
      <<"h", "e", "l", "p">>,
      <<"c", "o", "n", "t", "a", "c", "t">>,
      <<"w", "e", "b", "m", "a", "s", "t", "e", "r">>,
      <<"s", "y", "s", "a", "d", "m", "i", "n">>,
      <<"p", "o", "s", "t", "m", "a", "s", "t", "e", "r">>,
      <<"h", "o", "s", "t", "m", "a", "s", "t", "e", "r">>,
      <<"r", "o", "o", "t">>,
      <<"h", "r">>,
      <<"j", "o", "b", "s">>,
      <<"o", "f", "f", "i", "c", "e">>,
      <<"m", "a", "r", "k", "e", "t", "i", "n", "g">> }

(***************************************************************************)
(* Characters.                                                             *)
(***************************************************************************)
LowerCase ==
    <<"a", "b", "c", "d", "e", "f", "g", "h", "i", "j", "k", "l", "m",
      "n", "o", "p", "q", "r", "s", "t", "u", "v", "w", "x", "y", "z">>

UpperCase ==
    <<"A", "B", "C", "D", "E", "F", "G", "H", "I", "J", "K", "L", "M",
      "N", "O", "P", "Q", "R", "S", "T", "U", "V", "W", "X", "Y", "Z">>

Digits == <<"0", "1", "2", "3", "4", "5", "6", "7", "8", "9">>

Range(s) == { s[k] : k \in DOMAIN s }

\* [a-zA-Z0-9]
AlphaNum == Range(LowerCase) \cup Range(UpperCase) \cup Range(Digits)

\* [a-zA-Z0-9.!#$%&'*+/=?^_{|}~-] and the grave accent: the local-part class
\* of STRICT_EMAIL_REGEX (the grave accent cannot be written in a TLA+ string
\* and no input of the model uses it)
LocalChars ==
    AlphaNum \cup {".", "!", "#", "$", "%", "&", "'", "*", "+", "/", "=",
                   "?", "^", "_", "{", "|", "}", "~", "-"}

\* the characters String.prototype.trim removes that the inputs use
WhiteSpace == {" ", "\t", "\n", "\r"}

\* the JavaScript values null and undefined where a text may stand
Null == <<"<null>">>

\* String.prototype.toLowerCase, one character
LowerChar(c) ==
    IF \E k \in DOMAIN UpperCase : UpperCase[k] = c
    THEN LowerCase[CHOOSE k \in DOMAIN UpperCase : UpperCase[k] = c]
    ELSE c

toLowerCase(s) == [k \in DOMAIN s |-> LowerChar(s[k])]

\* String.prototype.trim
RECURSIVE TrimLeft(_)
TrimLeft(s) ==
    IF s # <<>> /\ Head(s) \in WhiteSpace THEN TrimLeft(Tail(s)) ELSE s

RECURSIVE TrimRight(_)
TrimRight(s) ==
    IF s # <<>> /\ s[Len(s)] \in WhiteSpace
    THEN TrimRight(SubSeq(s, 1, Len(s) - 1))
    ELSE s

trim(s) == TrimRight(TrimLeft(s))

\* String.prototype.includes for a single token
includes(s, tok) == \E k \in DOMAIN s : s[k] = tok

\* String.prototype.includes for a text
includesText(s, t) ==
    \E k \in 0..(Len(s) - Len(t)) : SubSeq(s, k + 1, k + Len(t)) = t

\* String.prototype.split on one separator character: the sequence of parts
RECURSIVE split(_, _)
split(s, sep) ==
    IF ~includes(s, sep)
    THEN <<s>>
    ELSE LET k == CHOOSE i \in DOMAIN s :
                      s[i] = sep /\ \A j \in 1..(i - 1) : s[j] # sep
         IN  <<SubSeq(s, 1, k - 1)>> \o split(SubSeq(s, k + 1, Len(s)), sep)

\* (email.match(/@/g) || []).length
CountChar(s, c) == Cardinality({ k \in DOMAIN s : s[k] = c })

Min2(a, b) == IF a <= b THEN a ELSE b

Min3(a, b, c) == Min2(a, Min2(b, c))

(***************************************************************************)
(* JavaScript values passed as `email`.  typeof, truthiness and the `trim` *)
(* property are what the code reads of a value that is not a string.       *)
(***************************************************************************)
JsString(s) ==
    [type |-> "string", nullish |-> FALSE, falsy |-> (s = <<>>),
     trimProp |-> "method", str |-> s]

JsNull ==
    [type |-> "object", nullish |-> TRUE, falsy |-> TRUE,
     trimProp |-> "absent", str |-> <<>>]

JsUndefined ==
    [type |-> "undefined", nullish |-> TRUE, falsy |-> TRUE,
     trimProp |-> "absent", str |-> <<>>]

\* a nonzero number such as 12345
JsNumber ==
    [type |-> "number", nullish |-> FALSE, falsy |-> FALSE,
     trimProp |-> "absent", str |-> <<>>]

\* a plain object such as {}
JsObject ==
    [type |-> "object", nullish |-> FALSE, falsy |-> FALSE,
     trimProp |-> "absent", str |-> <<>>]

\* an object with an own property `trim` that is not callable: { trim: 1 }
JsObjectWithTrim ==
    [type |-> "object", nullish |-> FALSE, falsy |-> FALSE,
     trimProp |-> "notcallable", str |-> <<>>]

(***************************************************************************)
(* levenshteinDistance (lines 68-88): the matrix is filled row by row,     *)
(* one row per character of str2, one column per character of str1.        *)
(* A row is a sequence; column i is its element i + 1.                     *)
(***************************************************************************)
\* a row in which a character that matches costs as much as one that
\* does not
RECURSIVE LevRowWithoutMatch(_, _, _, _)
LevRowWithoutMatch(str1, ch, prev, cur) ==
    IF Len(cur) = Len(str1) + 1
    THEN cur
    ELSE LET i == Len(cur)
         IN  LevRowWithoutMatch(str1, ch, prev,
                                Append(cur, Min3(cur[i] + 1,
                                                 prev[i + 1] + 1,
                                                 prev[i] + 1)))

\* a row in which the step along the row costs 2
RECURSIVE LevRowCostlyStep(_, _, _, _)
LevRowCostlyStep(str1, ch, prev, cur) ==
    IF Len(cur) = Len(str1) + 1
    THEN cur
    ELSE LET i == Len(cur)
             indicator == IF str1[i] = ch THEN 0 ELSE 1
         IN  LevRowCostlyStep(str1, ch, prev,
                              Append(cur, Min3(cur[i] + 2,
                                               prev[i + 1] + 1,
                                               prev[i] + indicator)))

RECURSIVE LevRow(_, _, _, _)
LevRow(str1, ch, prev, cur) ==
    IF Len(cur) = Len(str1) + 1
    THEN cur
    ELSE LET i == Len(cur)
             indicator == IF str1[i] = ch THEN 0 ELSE 1
         IN  LevRow(str1, ch, prev,
                    Append(cur, Min3(cur[i] + 1,
                                     prev[i + 1] + 1,
                                     prev[i] + indicator)))

\* the rows of the matrix, one per character of str2 (lines 76-85); every
\* row is as long as the one before it
RECURSIVE LevRows(_, _, _, _)
LevRows(str1, str2, j, prev) ==
    IF j > Len(str2)
    THEN prev
    ELSE LET row == LevRow(str1, str2[j], prev, <<j>>)
         IN  IF Len(row) = Len(prev)
             THEN LevRows(str1, str2, j + 1, row)
             ELSE row

levenshteinDistance(str1, str2) ==
    LevRows(str1, str2, 1, [i \in 1..(Len(str1) + 1) |-> i - 1])[Len(str1) + 1]

(***************************************************************************)
(* validateEmailSyntax (lines 90-145) and STRICT_EMAIL_REGEX (lines 6-7).  *)
(***************************************************************************)
\* [a-zA-Z0-9](?:[a-zA-Z0-9-]{0,61}[a-zA-Z0-9])?
LabelMatches(l) ==
    /\ Len(l) >= 1
    /\ Len(l) <= 61 + 2
    /\ l[1] \in AlphaNum
    /\ l[Len(l)] \in AlphaNum
    /\ \A k \in DOMAIN l : l[k] \in AlphaNum \cup {"-"}

STRICT_EMAIL_REGEX(s) ==
    LET parts == split(s, "@")
    IN  /\ Len(parts) = 2
        /\ parts[1] # <<>>
        /\ \A k \in DOMAIN parts[1] : parts[1][k] \in LocalChars
        /\ LET labels == split(parts[2], ".")
           IN  \A k \in DOMAIN labels : LabelMatches(labels[k])

Invalid(msg) == [valid |-> FALSE, error |-> msg]

validateEmailSyntax(email) ==
    IF email.falsy THEN Invalid(<<"Email is empty">>)
    ELSE IF email.type # "string" THEN Invalid(<<"Email must be a string">>)
    ELSE
      LET e == trim(email.str)
          atCount == CountChar(e, "@")
      IN
      IF Len(e) > 254
      THEN Invalid(<<"Email exceeds maximum length (254 characters)">>)
      ELSE IF atCount # 1
      THEN Invalid(<<"Email must contain exactly one @ symbol (found ",
                     ToString(atCount), ")">>)
      ELSE IF ~STRICT_EMAIL_REGEX(e)
      THEN Invalid(<<"Email format is invalid">>)
      ELSE
        LET localPart == split(e, "@")[1]
            domain == split(e, "@")[2]
        IN
        IF Len(localPart) > 64
        THEN Invalid(<<"Local part exceeds maximum length (64 characters)">>)
        ELSE IF localPart[1] = "." \/ localPart[Len(localPart)] = "."
        THEN Invalid(<<"Local part cannot start or end with a dot">>)
        ELSE IF includesText(localPart, <<".", ".">>)
        THEN Invalid(<<"Local part cannot contain consecutive dots">>)
        ELSE IF ~includes(domain, ".")
        THEN Invalid(<<"Domain must contain at least one dot">>)
        ELSE [valid |-> TRUE, error |-> Null]

(***************************************************************************)
(* interpretSMTPCode (lines 279-295).                                      *)
(***************************************************************************)
interpretSMTPCode(code) ==
    IF code = 0 THEN "connection_error"
    ELSE IF code >= 250 /\ code < 300 THEN "mailbox_exists"
    ELSE IF code = 550 \/ code = 551 \/ code = 553
    THEN "mailbox_does_not_exist"
    ELSE IF code = 450 \/ code = 451 \/ code = 452 THEN "greylisted"
    ELSE IF code = 421 THEN "service_unavailable"
    ELSE IF code = 500 \/ code = 501 \/ code = 502 \/ code = 503 \/ code = 504
    THEN "smtp_error"
    ELSE "unknown_response"

(***************************************************************************)
(* suggestCorrection (lines 297-325) and getDidYouMean (lines 531-535).    *)
(***************************************************************************)
NoMatch == [isNull |-> TRUE, suggested |-> Null, distance |-> 0]

Match(localPart, correct, distance) ==
    [isNull |-> FALSE,
     suggested |-> localPart \o <<"@">> \o correct,
     distance |-> distance]

\* COMMON_TYPOS[domain]: the value under an own key, Null when there is none
TypoLookup(domain) ==
    IF \E k \in DOMAIN COMMON_TYPOS : COMMON_TYPOS[k][1] = domain
    THEN COMMON_TYPOS[CHOOSE k \in DOMAIN COMMON_TYPOS :
                          COMMON_TYPOS[k][1] = domain][2]
    ELSE Null

\* the for...of loop over Object.entries(COMMON_TYPOS), from entry k on
RECURSIVE FuzzyScan(_, _, _, _, _)
FuzzyScan(localPart, domain, k, bestMatch, bestDistance) ==
    IF k > Len(COMMON_TYPOS)
    THEN bestMatch
    ELSE LET typo == COMMON_TYPOS[k][1]
             correct == COMMON_TYPOS[k][2]
             distance == levenshteinDistance(domain, typo)
         IN  IF distance <= bestDistance /\ correct # domain
             THEN FuzzyScan(localPart, domain, k + 1,
                            Match(localPart, correct, distance), distance)
             ELSE FuzzyScan(localPart, domain, k + 1, bestMatch, bestDistance)

suggestCorrection(email) ==
    IF email.falsy \/ email.type # "string" \/ ~includes(email.str, "@")
    THEN NoMatch
    ELSE LET localPart == split(email.str, "@")[1]
             domain == split(email.str, "@")[2]
         IN  IF TypoLookup(domain) # Null
             THEN Match(localPart, TypoLookup(domain), 0)
             ELSE FuzzyScan(localPart, domain, 1, NoMatch, 2)

getDidYouMean(email) ==
    IF email.falsy \/ email.type # "string"
    THEN Null
    ELSE suggestCorrection(JsString(trim(email.str))).suggested

(***************************************************************************)
(* Bounds of the model and the inputs it draws.                            *)
(***************************************************************************)
\* the longest MX answer the resolver gives
MaxMX == 2

\* the largest maxAttempts option a caller passes
MaxAttemptsOption == 2

\* the number of data events the ports of one server send to the call
MaxData == 1

\* the number of data events the ports of the server send in RaceSpec
RaceData == 2

\* the number of data events the server sends on port 25 in DialogueSpec
DialogueData == 5

\* the longest argument of a direct levenshteinDistance call
MaxLevLen == 3

\* "a".repeat(n)
Repeat(c, n) == [k \in 1..n |-> c]

ExampleCom == <<"e", "x", "a", "m", "p", "l", "e", ".", "c", "o", "m">>

\* the values of `email` the callers pass
Emails ==
    { JsNull, JsUndefined, JsNumber, JsObject, JsObjectWithTrim,
      JsString(<<>>),
      JsString(<<" ", " ">>),
      JsString(<<"n", "o", "t", "-", "a", "n", "-", "e", "m", "a", "i", "l">>),
      JsString(<<"u", "s", "e", "r", "@", "@">> \o ExampleCom),
      JsString(<<"u", "s", "e", "r", ".", ".", "n", "a", "m", "e", "@">>
               \o ExampleCom),
      JsString(<<"u", "s", "e", "r", "@", "e", "x", "a", "m", "p", "l", "e">>),
      JsString(Repeat("a", 65) \o <<"@">> \o ExampleCom),
      JsString(Repeat("a", 250) \o <<"@">> \o ExampleCom),
      JsString(Repeat("a", 10000)),
      JsString(<<"u", "s", "e", "r", "@",
                 "g", "m", "i", "a", "l", ".", "c", "o", "m">>),
      JsString(<<"u", "s", "e", "r", "@",
                 "g", "m", "a", "l", ".", "c", "o", "m">>),
      JsString(<<" ", "S", "u", "p", "p", "o", "r", "t", "@", "M", "a", "i",
                 "l", "i", "n", "a", "t", "o", "r", ".", "c", "o", "m", " ">>),
      JsString(<<"u", "s", "e", "r", "@">> \o ExampleCom) }

\* the options of a call that the code reads (timeout is a duration: the
\* model has no clock, a timer fires at some point after it was set)
Options ==
    [checkMX : BOOLEAN, checkSMTP : BOOLEAN, maxAttempts : 0..MaxAttemptsOption]

\* the MX answers of the resolver: records in the order the resolver gives
Hosts == <<"mx1.example.com", "mx2.example.com", "mx3.example.com">>

\* the k-th record of an answer names the k-th host; its priority is free
MxAnswers ==
    UNION { { [k \in 1..n |-> [exchange |-> Hosts[k], priority |-> prio[k]]] :
              prio \in [1..n -> {10, 20}] } : n \in 0..MaxMX }

DnsErrors == {"queryMx ENOTFOUND"}

SocketErrors == {"connect ECONNREFUSED"}

\* the ports of verifyWithSMTP, in the order it tries them (line 230)
ports == <<25, 587, 465>>

(***************************************************************************)
(* SMTP responses: the text of one data event.  The first three tokens are *)
(* the characters parseInt reads; the rest are the words of the body.      *)
(***************************************************************************)
Response(head, body) == head \o body

ServerResponses ==
    { Response(<<"2", "2", "0">>, <<" ", "ESMTP ready">>),
      Response(<<"2", "5", "0">>, <<" ", "EHLO", " accepted">>),
      Response(<<"2", "5", "0">>, <<"-", "mx at your service">>),
      Response(<<"2", "5", "0">>, <<" ", "MAIL FROM", " accepted">>),
      Response(<<"2", "5", "0">>, <<" ", "RCPT TO", " accepted">>),
      Response(<<"2", "5", "1">>, <<" ", "RCPT TO", " forwarded">>),
      Response(<<"2", "2", "1">>, <<" ", "Bye">>),
      Response(<<"4", "2", "1">>, <<" ", "Service not available">>),
      Response(<<"4", "5", "0">>, <<" ", "Greylisted">>),
      Response(<<"4", "5", "2">>, <<" ", "Insufficient storage">>),
      Response(<<"5", "0", "0">>, <<" ", "Syntax error">>),
      Response(<<"5", "3", "0">>, <<" ", "Authentication required">>),
      Response(<<"5", "5", "0">>, <<" ", "No such user">>),
      Response(<<"5", "5", "2">>, <<" ", "Mailbox full">>),
      Response(<<"5", "5", "4">>, <<" ", "Transaction failed">>) }

\* NaN: no comparison of the code with it holds
NaN == -1

DigitValue(c) == (CHOOSE k \in DOMAIN Digits : Digits[k] = c) - 1

\* parseInt on a text: the number its leading digits spell, NaN without any
RECURSIVE ParseDigits(_, _)
ParseDigits(t, acc) ==
    IF t = <<>> \/ Head(t) \notin Range(Digits)
    THEN acc
    ELSE ParseDigits(Tail(t), 10 * acc + DigitValue(Head(t)))

parseInt(t) ==
    IF t = <<>> \/ Head(t) \notin Range(Digits) THEN NaN ELSE ParseDigits(t, 0)

\* response.substring(0, 3)
substring3(t) == SubSeq(t, 1, Min2(3, Len(t)))

(***************************************************************************)
(* The state of one verifyEmail call.                                      *)
(***************************************************************************)
VARIABLES
    pc,          \* where the call is: idle, dns, smtp, returned, rejected
    email,       \* the argument `email`
    options,     \* the options read at lines 329-334
    result,      \* the result object (lines 336-357)
    loop,        \* the locals of the server loop (lines 426-432)
    smtpResult,  \* the verdict of the last verifyWithSMTP call (line 435)
    racer,       \* verifyWithSMTP: pending, resolved, results (233-235)
    probes,      \* per port: the state of the tryPort call of the racer
    dnsCalls,    \* the number of dns.resolveMx calls made
    connected,   \* the connections opened so far: host and port, in order
    call,        \* a direct call of an exported function: name, arguments, value
    dataLeft     \* data events the ports of the current server may still send

vars ==
    <<pc, email, options, result, loop, smtpResult, racer, probes, dnsCalls,
      connected, call, dataLeft>>

\* no exported function other than verifyEmail is called
NoCall == [fn |-> "none", args |-> <<>>, returned |-> FALSE, value |-> 0]

\* a probe that was not started
NoProbe ==
    [sock |-> "none", responseCode |-> 0, responseMessage |-> <<>>,
     timer |-> "none", written |-> <<>>, settled |-> FALSE]

\* a probe without the timer of lines 172-180
ProbeWithoutTimer ==
    [sock |-> "open", responseCode |-> 0, responseMessage |-> <<>>,
     timer |-> "none", written |-> <<>>, settled |-> FALSE]

\* tryPort up to its return (lines 163-180): the connection is being opened,
\* the timer is set
NewProbe ==
    [sock |-> "open", responseCode |-> 0, responseMessage |-> <<>>,
     timer |-> "armed", written |-> <<>>, settled |-> FALSE]

NoRacer == [pending |-> 0, resolved |-> FALSE, results |-> <<>>,
            delivered |-> 0]

\* verifyWithSMTP up to its return (lines 230-237)
NewRacer == [pending |-> Len(ports), resolved |-> FALSE, results |-> <<>>,
             delivered |-> 0]

NoVerdict ==
    [success |-> FALSE, responseCode |-> 0, message |-> <<>>, port |-> 0,
     allPortsBlocked |-> FALSE, none |-> TRUE]

NoLoop ==
    [i |-> 0, smtpSuccess |-> FALSE, lastResponseCode |-> 0,
     lastMessage |-> <<>>, smtpBlocked |-> FALSE]

Step(valid, message) == [valid |-> valid, message |-> message]

\* email?.trim?.() || "" (line 337), for a value whose trim can be called
TrimmedOrEmpty(e) ==
    IF e.nullish \/ e.trimProp = "absent" THEN <<>> ELSE trim(e.str)

\* the result object as constructed (lines 336-357)
InitialResult(e) ==
    [email |-> TrimmedOrEmpty(e),
     result |-> "unknown",
     resultcode |-> 3,
     subresult |-> "unknown",
     domain |-> <<>>,
     mxRecords |-> <<>>,
     error |-> Null,
     didyoumean |-> Null,
     smtpBlocked |-> FALSE,
     smtpChecked |-> FALSE,
     verificationMethod |-> "unknown",
     disposable |-> FALSE,
     roleBased |-> FALSE,
     steps |-> [syntax |-> Step("false", <<"Pending">>),
                mx |-> Step("null", <<"Skipped">>),
                smtp |-> Step("null", <<"Skipped">>)]]

Init ==
    /\ pc = "idle"
    /\ email = JsUndefined
    /\ options = [checkMX |-> TRUE, checkSMTP |-> TRUE, maxAttempts |-> 2]
    /\ result = InitialResult(JsUndefined)
    /\ loop = NoLoop
    /\ smtpResult = NoVerdict
    /\ racer = NoRacer
    /\ probes = [p \in Range(ports) |-> NoProbe]
    /\ dnsCalls = 0
    /\ connected = <<>>
    /\ call = NoCall
    /\ dataLeft = MaxData

(***************************************************************************)
(* getMXRecords (lines 147-160).                                           *)
(***************************************************************************)
\* Array.prototype.sort by priority, ascending and stable: records of equal
\* priority keep the order of the answer
RECURSIVE InsertByPriority(_, _)
InsertByPriority(sorted, mx) ==
    IF sorted = <<>> THEN <<mx>>
    ELSE IF sorted[Len(sorted)].priority <= mx.priority
    THEN Append(sorted, mx)
    ELSE Append(InsertByPriority(SubSeq(sorted, 1, Len(sorted) - 1), mx),
                sorted[Len(sorted)])

RECURSIVE SortByPriority(_)
SortByPriority(ans) ==
    IF ans = <<>> THEN <<>>
    ELSE InsertByPriority(SortByPriority(SubSeq(ans, 1, Len(ans) - 1)),
                          ans[Len(ans)])

\* the value getMXRecords returns for an answer of the resolver
getMXRecords(ans) ==
    LET sorted == SortByPriority(ans)
    IN  [k \in DOMAIN sorted |-> sorted[k].exchange]

\* the message of the Error getMXRecords throws (line 158)
DnsFailure(domain, cause) ==
    <<"DNS lookup failed for ">> \o domain \o <<": ", cause>>

(***************************************************************************)
(* tryPort (lines 162-227): the handlers of one probe.                     *)
(***************************************************************************)
EHLO == <<"EHLO verify.local\r\n">>

MAIL_FROM == <<"MAIL FROM:<verify@verify.local>\r\n">>

RCPT_TO(addr) == <<"RCPT TO:<">> \o addr \o <<">\r\n">>

QUIT == <<"QUIT\r\n">>

\* socket.write: the line goes out; after socket.end() the write fails with
\* "write after end" and the stream is destroyed with that error
Write(pr, line) ==
    IF pr.sock = "open"
    THEN [pr EXCEPT !.written = Append(@, line)]
    ELSE [pr EXCEPT !.sock = "erred"]

\* lines 194-196 and 199-201: record the code and the text, send QUIT
Record(pr, code, response) ==
    Write([pr EXCEPT !.responseCode = code, !.responseMessage = response],
          QUIT)

\* socket.on("data") (lines 182-205)
OnData(pr, data, addr) ==
    LET response == trim(data)
        code == parseInt(substring3(response))
    IN  IF code = 220 THEN Write(pr, EHLO)
        ELSE IF code = 250
        THEN IF includes(response, "EHLO") \/ includes(response, "HELO")
             THEN Write(pr, MAIL_FROM)
             ELSE IF includes(response, "MAIL FROM")
             THEN Write(pr, RCPT_TO(addr))
             ELSE IF includes(response, "RCPT TO")
             THEN Record(pr, code, response)
             ELSE pr
        ELSE IF code >= 400 /\ code < 600 THEN Record(pr, code, response)
        ELSE IF code = 221
        THEN [pr EXCEPT !.sock = "ended"]
        ELSE pr

Outcome(success, responseCode, message, port) ==
    [success |-> success, responseCode |-> responseCode, message |-> message,
     port |-> port]

\* an end handler that forgets the recorded code
EndOutcomeWithoutCode(pr, port) == Outcome(FALSE, 0, pr.responseMessage, port)

\* socket.on("end") (lines 207-215)
EndOutcome(pr, port) ==
    Outcome(pr.responseCode >= 250 /\ pr.responseCode < 300,
            pr.responseCode, pr.responseMessage, port)

\* an error handler that reports no cause
ErrorOutcomeWithoutCause(port, cause) == Outcome(FALSE, 0, <<>>, port)

\* socket.on("error") (lines 217-225)
ErrorOutcome(port, cause) ==
    Outcome(FALSE, 0, <<"Port ", ToString(port), ": ", cause>>, port)

\* the timer's callback (lines 172-180)
TimeoutOutcome(port) ==
    Outcome(FALSE, 0, <<"Port ", ToString(port), ": timeout">>, port)

\* the probe once its promise is resolved and its socket is gone
Closed(pr, timer) ==
    [pr EXCEPT !.sock = "closed", !.timer = timer, !.settled = TRUE]

(***************************************************************************)
(* verifyWithSMTP (lines 229-277): the callback of one probe's promise.    *)
(***************************************************************************)
Verdict(outcome, allPortsBlocked, message) ==
    [success |-> outcome.success, responseCode |-> outcome.responseCode,
     message |-> message, port |-> outcome.port,
     allPortsBlocked |-> allPortsBlocked, none |-> FALSE]

\* the last outcome to arrive, whatever its code
LastResult(results) == results[Len(results)]

\* results.find((r) => r.responseCode > 0) || results[0] (lines 263-264)
BestResult(results) ==
    IF \E k \in DOMAIN results : results[k].responseCode > 0
    THEN results[CHOOSE k \in DOMAIN results :
                     /\ results[k].responseCode > 0
                     /\ \A j \in 1..(k - 1) : ~(results[j].responseCode > 0)]
    ELSE results[1]

\* a verdict that is blocked as soon as one port has no code
SomeBlocked(results) == \E k \in DOMAIN results : results[k].responseCode = 0

\* results.every((r) => r.responseCode === 0) (line 265)
AllBlocked(results) == \A k \in DOMAIN results : results[k].responseCode = 0

\* a loop that stops at every 5xx code
Every5xx(code) == code >= 500 /\ code < 600

\* a definitive failure for the racer and the server loop (lines 253, 456)
Definitive(code) == code >= 550 /\ code < 600

\* a callback that drops the outcome and never calls mainResolve: with it
\* a call cannot leave the server loop
RacerDropsOutcome(rc, outcome) == [racer |-> rc, verdict |-> NoVerdict]

\* a callback without the test of line 239: an outcome that arrives after
\* the verdict is recorded and may be delivered as another verdict
RacerWithoutResolvedTest(rc, outcome) ==
    LET rc1 == [rc EXCEPT !.results = Append(@, outcome),
                          !.pending = @ - 1]
    IN  IF outcome.success \/ Definitive(outcome.responseCode)
        THEN [racer |-> [rc1 EXCEPT !.resolved = TRUE,
                                    !.delivered = @ + 1],
              verdict |-> Verdict(outcome, FALSE, outcome.message)]
        ELSE IF rc1.pending = 0
        THEN [racer |-> [rc1 EXCEPT !.delivered = @ + 1],
              verdict |-> Verdict(BestResult(rc1.results),
                                  AllBlocked(rc1.results),
                                  BestResult(rc1.results).message)]
        ELSE [racer |-> rc1, verdict |-> NoVerdict]

\* a racer that delivers the first outcome to arrive as its verdict,
\* whatever it is and whatever probes are still in flight
RacerDeliversFirst(rc, outcome) ==
    IF rc.resolved THEN [racer |-> rc, verdict |-> NoVerdict]
    ELSE [racer |-> [rc EXCEPT !.results = Append(@, outcome),
                               !.pending = @ - 1,
                               !.resolved = TRUE,
                               !.delivered = @ + 1],
          verdict |-> Verdict(outcome, outcome.responseCode = 0,
                              outcome.message)]

\* a callback without the tests of lines 245-257: every outcome is kept and
\* the verdict is the best result once all three have arrived
RacerWaitsForAll(rc, outcome) ==
    IF rc.resolved THEN [racer |-> rc, verdict |-> NoVerdict]
    ELSE
      LET rc1 == [rc EXCEPT !.results = Append(@, outcome),
                            !.pending = @ - 1]
      IN  IF rc1.pending = 0
          THEN [racer |-> [rc1 EXCEPT !.resolved = TRUE,
                                      !.delivered = @ + 1],
                verdict |-> Verdict(BestResult(rc1.results),
                                    AllBlocked(rc1.results),
                                    BestResult(rc1.results).message)]
          ELSE [racer |-> rc1, verdict |-> NoVerdict]

\* the racer after the callback, and the verdict it delivers (NoVerdict
\* when mainResolve is not called)
RacerCallback(rc, outcome) ==
    IF rc.resolved THEN [racer |-> rc, verdict |-> NoVerdict]
    ELSE
      LET rc1 == [rc EXCEPT !.results = Append(@, outcome),
                            !.pending = @ - 1]
      IN  IF outcome.success \/ Definitive(outcome.responseCode)
          THEN [racer |-> [rc1 EXCEPT !.resolved = TRUE,
                                      !.delivered = @ + 1],
                verdict |-> Verdict(outcome, FALSE, outcome.message)]
          ELSE IF rc1.pending = 0
          THEN LET bestResult == BestResult(rc1.results)
                   allBlocked == AllBlocked(rc1.results)
               IN  [racer |-> [rc1 EXCEPT !.delivered = @ + 1],
                    verdict |->
                        Verdict(bestResult, allBlocked,
                                IF allBlocked
                                THEN <<"All SMTP ports blocked">>
                                ELSE bestResult.message)]
          ELSE [racer |-> rc1, verdict |-> NoVerdict]

(***************************************************************************)
(* verifyEmail (lines 327-529).                                            *)
(***************************************************************************)
\* a rejected syntax that keeps the classification the result was built
\* with
InvalidSyntaxUnclassified(res, error) ==
    [res EXCEPT !.error = error,
                !.verificationMethod = "syntax_validation",
                !.steps.syntax = Step("false", error)]

\* the result of a rejected syntax (lines 362-371)
InvalidSyntax(res, error) ==
    [res EXCEPT !.result = "invalid", !.resultcode = 6,
                !.subresult = "invalid_syntax", !.error = error,
                !.verificationMethod = "syntax_validation",
                !.steps.syntax = Step("false", error)]

\* lines 372-377
SyntaxPassed(res, localPart, domain) ==
    [res EXCEPT !.steps.syntax = Step("true", <<"Format is valid">>),
                !.domain = domain,
                !.disposable = (toLowerCase(domain) \in DISPOSABLE_DOMAINS),
                !.roleBased = (toLowerCase(localPart) \in ROLE_ACCOUNTS)]

\* a detected typo whose suggestion is not stored
TypoDetectedWithoutSuggestion(res, suggested) ==
    [res EXCEPT !.result = "invalid", !.resultcode = 6,
                !.subresult = "typo_detected",
                !.verificationMethod = "typo_detection"]

\* the result of a detected typo (lines 381-389)
TypoDetected(res, suggested) ==
    [res EXCEPT !.didyoumean = suggested, !.result = "invalid",
                !.resultcode = 6, !.subresult = "typo_detected",
                !.verificationMethod = "typo_detection"]

\* an empty answer reported as a failed lookup
NoMxRecordsAsLookupFailure(res) ==
    [res EXCEPT !.result = "invalid", !.resultcode = 6,
                !.subresult = "dns_lookup_failed",
                !.error = <<"No MX records found for domain">>,
                !.verificationMethod = "dns_lookup",
                !.steps.mx = Step("false", <<"No MX records found">>)]

\* lines 395-404
NoMxRecords(res) ==
    [res EXCEPT !.result = "invalid", !.resultcode = 6,
                !.subresult = "no_mx_records",
                !.error = <<"No MX records found for domain">>,
                !.verificationMethod = "dns_lookup",
                !.steps.mx = Step("false", <<"No MX records found">>)]

\* lines 405-409
MxFound(res, mxRecords) ==
    [res EXCEPT !.mxRecords = mxRecords,
                !.steps.mx = Step("true", <<"Found ", ToString(Len(mxRecords)),
                                            " MX records">>)]

\* lines 410-419
DnsLookupFailed(res, message) ==
    [res EXCEPT !.result = "invalid", !.resultcode = 6,
                !.subresult = "dns_lookup_failed", !.error = message,
                !.verificationMethod = "dns_lookup",
                !.steps.mx = Step("false", message)]

\* the success branch without line 470: steps.smtp stays as constructed
SmtpValidWithoutStep(res) ==
    [res EXCEPT !.result = "valid", !.resultcode = 1]

\* lines 467-470
SmtpValid(res) ==
    [res EXCEPT !.result = "valid", !.resultcode = 1,
                !.steps.smtp = Step("true", <<"Mailbox exists">>)]

\* the fallback branch without line 476: subresult stays the name of code 0
BlockedFallbackWithoutSubresult(res) ==
    [res EXCEPT !.result = "valid", !.resultcode = 1,
                !.verificationMethod = "dns_lookup_fallback",
                !.steps.smtp = Step("null", <<"Blocked/Timeout (Fallback to DNS)">>)]

\* lines 471-483
BlockedFallback(res) ==
    [res EXCEPT !.result = "valid", !.resultcode = 1,
                !.subresult = "smtp_blocked_but_mx_valid",
                !.verificationMethod = "dns_lookup_fallback",
                !.error = <<"SMTP ports blocked (all ports timeout) - Verified via DNS MX records">>,
                !.steps.smtp = Step("null", <<"Blocked/Timeout (Fallback to DNS)">>)]

\* the greylisted branch with the numeric code of another result
GreylistedWithCode6(res, code) ==
    [res EXCEPT !.result = "unknown", !.resultcode = 6,
                !.steps.smtp = Step("false", <<"Greylisted/Throttled (",
                                               ToString(code), ")">>)]

\* lines 484-490
Greylisted(res, code) ==
    [res EXCEPT !.result = "unknown", !.resultcode = 3,
                !.steps.smtp = Step("false", <<"Greylisted/Throttled (",
                                               ToString(code), ")">>)]

\* lines 491-497
Rejected(res, code) ==
    [res EXCEPT !.result = "invalid", !.resultcode = 6,
                !.steps.smtp = Step("false", <<"Mailbox not found / Rejected (",
                                               ToString(code), ")">>)]

\* lines 498-505
UnknownResponse(res, code) ==
    [res EXCEPT !.result = "unknown", !.resultcode = 3,
                !.steps.smtp = Step("false", <<"Unknown response (",
                                               ToString(code), ")">>)]

\* the classification after the server loop (lines 462-509)
Classify(res, smtpSuccess, lastResponseCode, lastMessage, smtpBlocked) ==
    LET r1 == [res EXCEPT !.subresult = interpretSMTPCode(lastResponseCode),
                          !.smtpBlocked = smtpBlocked]
        r2 == IF smtpSuccess THEN SmtpValid(r1)
              ELSE IF smtpBlocked THEN BlockedFallback(r1)
              ELSE IF lastResponseCode >= 450 /\ lastResponseCode < 500
              THEN Greylisted(r1, lastResponseCode)
              ELSE IF lastResponseCode >= 550 /\ lastResponseCode < 600
              THEN Rejected(r1, lastResponseCode)
              ELSE UnknownResponse(r1, lastResponseCode)
    IN  IF ~smtpSuccess /\ lastMessage # <<>>
        THEN [r2 EXCEPT !.error = lastMessage]
        ELSE r2

\* The fields of (result, resultcode, subresult) that lines 462-505 assign,
\* in the order of the assignments: line 463, then the lines of the branch
\* taken (468-469, 474-476, 485-486, 492-493 or 499-500).
TripleAssignments(smtpSuccess, lastResponseCode, smtpBlocked) ==
    <<"subresult">> \o
    (IF smtpSuccess THEN <<"result", "resultcode">>
     ELSE IF smtpBlocked THEN <<"result", "resultcode", "subresult">>
     ELSE IF lastResponseCode >= 450 /\ lastResponseCode < 500
     THEN <<"result", "resultcode">>
     ELSE IF lastResponseCode >= 550 /\ lastResponseCode < 600
     THEN <<"result", "resultcode">>
     ELSE <<"result", "resultcode">>)

\* the checkSMTP-off branch without line 515
SkippedByConfigWithoutMethod(res) ==
    [res EXCEPT !.result = "valid", !.resultcode = 1,
                !.subresult = "syntax_and_mx_valid", !.smtpChecked = FALSE,
                !.steps.smtp = Step("null", <<"Skipped by config">>)]

\* lines 510-517
SkippedByConfig(res) ==
    [res EXCEPT !.result = "valid", !.resultcode = 1,
                !.subresult = "syntax_and_mx_valid", !.smtpChecked = FALSE,
                !.verificationMethod = "dns_lookup",
                !.steps.smtp = Step("null", <<"Skipped by config">>)]

\* a loop that tries every record whatever maxAttempts is
EveryRecord(o, res) == Len(res.mxRecords)

\* Math.min(maxAttempts, result.mxRecords.length) (line 431)
LoopBound(o, res) == Min2(o.maxAttempts, Len(res.mxRecords))

\* verifyWithSMTP up to its return (lines 230-238): three probes, one racer.
\* The closures of the call before are garbage once it has delivered.
StartProbes == [p \in Range(ports) |-> NewProbe]

\* The call from the point where a verdict of the racer is assigned to
\* smtpResult (line 435) to its next await or its return: lines 441-460,
\* then either the next iteration or lines 462-520.
AfterVerdict(o, res, lp, v, P, R) ==
    LET lp1 == [lp EXCEPT !.lastResponseCode = v.responseCode,
                          !.lastMessage = v.message,
                          !.smtpBlocked = IF v.allPortsBlocked THEN TRUE ELSE @]
        done(r, l) ==
            [pc |-> "returned",
             result |-> Classify(r, l.smtpSuccess, l.lastResponseCode,
                                 l.lastMessage, l.smtpBlocked),
             loop |-> l, probes |-> P, racer |-> R]
    IN  IF v.success
        THEN done([res EXCEPT !.verificationMethod = "smtp_verification"],
                  [lp1 EXCEPT !.smtpSuccess = TRUE])
        ELSE IF Definitive(lp1.lastResponseCode)
        THEN done([res EXCEPT !.verificationMethod = "smtp_verification"], lp1)
        ELSE LET lp2 == [lp1 EXCEPT !.i = @ + 1]
             IN  IF lp2.i < LoopBound(o, res)
                 THEN [pc |-> "smtp", result |-> res, loop |-> lp2,
                       probes |-> StartProbes, racer |-> NewRacer]
                 ELSE done(res, lp2)

\* step 4 with a plain else at line 510: without servers to probe the
\* result is classified as if checkSMTP were off
Step4ElseSkipped(o, res) ==
    IF o.checkSMTP /\ Len(res.mxRecords) > 0
    THEN LET r1 == [res EXCEPT !.smtpChecked = TRUE]
         IN  IF 0 < LoopBound(o, r1)
             THEN [pc |-> "smtp", result |-> r1, loop |-> NoLoop,
                   probes |-> StartProbes, racer |-> NewRacer]
             ELSE [pc |-> "returned",
                   result |-> Classify(r1, FALSE, 0, <<>>, FALSE),
                   loop |-> NoLoop, probes |-> probes, racer |-> racer]
    ELSE [pc |-> "returned", result |-> SkippedByConfig(res),
          loop |-> NoLoop, probes |-> probes, racer |-> racer]

\* Step 4 (lines 422-520) from its start to the first await or the return
Step4(o, res) ==
    IF o.checkSMTP /\ Len(res.mxRecords) > 0
    THEN LET r1 == [res EXCEPT !.smtpChecked = TRUE]
         IN  IF 0 < LoopBound(o, r1)
             THEN [pc |-> "smtp", result |-> r1, loop |-> NoLoop,
                   probes |-> StartProbes, racer |-> NewRacer]
             ELSE [pc |-> "returned",
                   result |-> Classify(r1, FALSE, 0, <<>>, FALSE),
                   loop |-> NoLoop, probes |-> probes, racer |-> racer]
    ELSE [pc |-> "returned",
          result |-> IF ~o.checkSMTP THEN SkippedByConfig(res) ELSE res,
          loop |-> NoLoop, probes |-> probes, racer |-> racer]

\* a return of the call with result object res
Return(res) ==
    [pc |-> "returned", result |-> res, loop |-> NoLoop, probes |-> probes,
     racer |-> racer]

\* The call from its start to its first await or its return (lines 359-392,
\* and step 4 when checkMX is off), for a value of `email` line 337 accepts.
SyncStages(e, o) ==
    LET res0 == InitialResult(e)
        syntaxValidation == validateEmailSyntax(e)
    IN  IF ~syntaxValidation.valid
        THEN Return(InvalidSyntax(res0, syntaxValidation.error))
        ELSE
          LET trimmed == trim(e.str)
              parts == split(trimmed, "@")
              res1 == SyntaxPassed(res0, parts[1], parts[2])
              suggestion == suggestCorrection(JsString(trimmed))
          IN  IF ~suggestion.isNull /\ suggestion.suggested # trimmed
              THEN Return(TypoDetected(res1, suggestion.suggested))
              ELSE IF o.checkMX
              THEN [pc |-> "dns", result |-> res1, loop |-> NoLoop,
                    probes |-> probes, racer |-> racer]
              ELSE Step4(o, res1)

\* email?.trim?.() at line 337 calls a `trim` that is not nullish; when it
\* is not callable the call throws a TypeError before the try block
ConstructionThrows(e) == ~e.nullish /\ e.trimProp = "notcallable"

\* the server an iteration of the loop probes (line 432)
mxServer(res, lp) == res.mxRecords[lp.i + 1]

\* the connections one verifyWithSMTP call opens: net.createConnection of
\* tryPort (line 164), once for each port in the order of `ports` (line 237)
Connections(host) == [k \in DOMAIN ports |-> [host |-> host, port |-> ports[k]]]

\* The call goes on to its next await or its return; when that await is a
\* verifyWithSMTP call, the call has opened its connections.
Goto(n) ==
    /\ pc' = n.pc
    /\ result' = n.result
    /\ loop' = n.loop
    /\ probes' = n.probes
    /\ racer' = n.racer
    /\ connected' = IF n.pc = "smtp"
                    THEN connected \o Connections(mxServer(n.result, n.loop))
                    ELSE connected

(***************************************************************************)
(* Actions.                                                                *)
(***************************************************************************)
\* verifyEmail(e, o) is called and runs to its first await or its return
Call(e, o) ==
    /\ pc = "idle"
    /\ email' = e
    /\ options' = o
    /\ IF ConstructionThrows(e)
       THEN /\ pc' = "rejected"
            /\ UNCHANGED <<result, loop, probes, racer, dnsCalls, connected>>
       ELSE \E n \in {SyncStages(e, o)} :
               /\ Goto(n)
               /\ dnsCalls' = IF n.pc = "dns" THEN dnsCalls + 1 ELSE dnsCalls
    /\ UNCHANGED <<smtpResult, call, dataLeft>>

\* dns.resolveMx answers and the call resumes after line 394
DnsAnswer(ans) ==
    /\ pc = "dns"
    /\ LET mxRecords == getMXRecords(ans)
       IN  IF Len(mxRecords) = 0
           THEN Goto(Return(NoMxRecords(result)))
           ELSE Goto(Step4(options, MxFound(result, mxRecords)))
    /\ UNCHANGED <<email, options, smtpResult, dnsCalls, call, dataLeft>>

\* dns.resolveMx fails and the call resumes in the catch of line 410
DnsError(cause) ==
    /\ pc = "dns"
    /\ Goto(Return(DnsLookupFailed(result, DnsFailure(result.domain, cause))))
    /\ UNCHANGED <<email, options, smtpResult, dnsCalls, call, dataLeft>>

\* the socket of a probe can still deliver events
Live(p) == probes[p].sock \in {"open", "ended"}


\* The promise of probe p is resolved with `outcome`: the racer's
\* callback runs (lines 238-274) and, when it calls mainResolve, the call
\* resumes after line 435.  (\E over a one-element set names a value that
\* is computed once.)  The servers' data budget starts anew with each
\* server the loop turns to.
Settle(p, pr1, outcome) ==
    \E step \in {RacerCallback(racer, outcome)} :
       IF step.verdict.none
       THEN /\ probes' = [probes EXCEPT ![p] = pr1]
            /\ racer' = step.racer
            /\ UNCHANGED <<pc, result, loop, smtpResult, connected,
                           dataLeft>>
       ELSE \E n \in {AfterVerdict(options, result, loop, step.verdict,
                                    [probes EXCEPT ![p] = pr1], step.racer)} :
               /\ Goto(n)
               /\ smtpResult' = step.verdict
               /\ dataLeft' = IF n.pc = "smtp" THEN MaxData ELSE dataLeft

\* A data event of probe p.  When the handler writes to a socket it has
\* ended, the error event follows before any other event (it is emitted on
\* the next tick) and its handler resolves the probe (lines 217-225).
Data(p, response) ==
    /\ Live(p)
    /\ dataLeft > 0
    /\ \E pr1 \in {OnData(probes[p], response, trim(email.str))} :
          IF pr1.sock = "erred"
          THEN /\ Settle(p, Closed(pr1, "cleared"),
                         ErrorOutcome(p, "write after end"))
               /\ UNCHANGED <<email, options, dnsCalls, call>>
          ELSE /\ dataLeft' = dataLeft - 1
               /\ probes' = [probes EXCEPT ![p] = pr1]
               /\ UNCHANGED <<pc, email, options, result, loop, smtpResult,
                              racer, dnsCalls, connected, call>>

\* the end event of probe p: the server closed the stream
End(p) ==
    /\ Live(p)
    /\ Settle(p, Closed(probes[p], "cleared"),
              EndOutcome(probes[p], p))
    /\ UNCHANGED <<email, options, dnsCalls, call>>

\* the error event of probe p
Error(p, cause) ==
    /\ Live(p)
    /\ Settle(p, Closed(probes[p], "cleared"), ErrorOutcome(p, cause))
    /\ UNCHANGED <<email, options, dnsCalls, call>>

\* The timer of probe p fires.  The timers of one racer are set in the
\* order of `ports` with the same delay, so they fire in that order.
Timeout(p) ==
    /\ probes[p].timer = "armed"
    /\ \A a, b \in DOMAIN ports :
          (a < b /\ ports[b] = p) => probes[ports[a]].timer # "armed"
    /\ Settle(p, Closed(probes[p], "fired"), TimeoutOutcome(p))
    /\ UNCHANGED <<email, options, dnsCalls, call>>

Next ==
    \/ \E e \in Emails, o \in Options : Call(e, o)
    \/ \E ans \in MxAnswers : DnsAnswer(ans)
    \/ \E cause \in DnsErrors : DnsError(cause)
    \/ \E p \in Range(ports), response \in ServerResponses :
          Data(p, response)
    \/ \E p \in Range(ports) : End(p)
    \/ \E p \in Range(ports), cause \in SocketErrors :
          Error(p, cause)
    \/ \E p \in Range(ports) : Timeout(p)

Spec == Init /\ [][Next]_vars

\* The event loop runs a timer that is due, and the resolver settles every
\* query (it has its own timeouts).  Nothing is assumed of the mail servers
\* or of the caller.
FairSpec ==
    /\ Spec
    /\ WF_vars(\E p \in Range(ports) : Timeout(p))
    /\ WF_vars(\/ \E ans \in MxAnswers : DnsAnswer(ans)
               \/ \E cause \in DnsErrors : DnsError(cause))

(***************************************************************************)
(* One verifyWithSMTP call: the race of the three probes of one server,    *)
(* with enough data events for every port to carry a response code.        *)
(***************************************************************************)
\* The call verifyEmail("user@example.com", {maxAttempts: 1}) at its first
\* verifyWithSMTP (line 435), after the resolver named one exchanger; the
\* server will send `budget` data events.
AtFirstServer(budget) ==
    LET e == JsString(<<"u", "s", "e", "r", "@">> \o ExampleCom)
        o == [checkMX |-> TRUE, checkSMTP |-> TRUE, maxAttempts |-> 1]
        ans == <<[exchange |-> Hosts[1], priority |-> 10]>>
        parts == split(trim(e.str), "@")
        res1 == SyntaxPassed(InitialResult(e), parts[1], parts[2])
        n == Step4(o, MxFound(res1, getMXRecords(ans)))
    IN  /\ pc = n.pc
        /\ email = e
        /\ options = o
        /\ result = n.result
        /\ loop = n.loop
        /\ smtpResult = NoVerdict
        /\ racer = n.racer
        /\ probes = n.probes
        /\ dnsCalls = 1
        /\ connected = Connections(mxServer(n.result, n.loop))
        /\ call = NoCall
        /\ dataLeft = budget

RaceInit == AtFirstServer(RaceData)

RaceNext ==
    \/ \E p \in Range(ports), response \in ServerResponses :
          Data(p, response)
    \/ \E p \in Range(ports) : End(p)
    \/ \E p \in Range(ports), cause \in SocketErrors :
          Error(p, cause)
    \/ \E p \in Range(ports) : Timeout(p)

RaceSpec == RaceInit /\ [][RaceNext]_vars

(***************************************************************************)
(* One SMTP dialogue: the server answers on port 25 only, with enough data *)
(* events for a whole dialogue; the other two probes end, fail or time out.*)
(***************************************************************************)
DialogueInit == AtFirstServer(DialogueData)

DialogueNext ==
    \/ \E response \in ServerResponses : Data(ports[1], response)
    \/ \E p \in Range(ports) : End(p)
    \/ \E p \in Range(ports), cause \in SocketErrors :
          Error(p, cause)
    \/ \E p \in Range(ports) : Timeout(p)

DialogueSpec == DialogueInit /\ [][DialogueNext]_vars

(***************************************************************************)
(* Direct calls of the exported pure functions: suggestCorrection,         *)
(* getDidYouMean and levenshteinDistance, each on an argument drawn from   *)
(* a bounded set.                                                          *)
(***************************************************************************)
LocalParts == { <<"u", "s", "e", "r">>, <<"a", ".", "b">> }

\* domains that are neither a typo nor a correction of the table
OtherDomains ==
    { <<"a", "i", ".", "c", "o", "m">>,
      <<"a", "o", "o", ".", "c", "o">>,
      <<"g", "m", "a", "l", ".", "c", "o", "m">>,
      <<"g", "m", "a", "i", "l", "l", ".", "c", "o", "m">>,
      <<"m", "a", "i", "l", ".", "c", "o", "m">>,
      <<"e", "x", "a", "m", "p", "l", "e", ".", "c", "o", "m">> }

\* the typos of the table, their corrections, and the other domains
TypoDomains ==
    { COMMON_TYPOS[k][1] : k \in DOMAIN COMMON_TYPOS }
      \cup { COMMON_TYPOS[k][2] : k \in DOMAIN COMMON_TYPOS }
      \cup OtherDomains

\* the arguments of suggestCorrection and getDidYouMean
TypoInputs ==
    { JsString(l \o <<"@">> \o d) : l \in LocalParts, d \in TypoDomains }
      \cup { JsNull, JsUndefined, JsNumber, JsString(<<>>),
             JsString(<<"u", "s", "e", "r">>),
             JsString(<<" ">> \o <<"u", "s", "e", "r", "@", "g", "m", "i", "a", "l", ".", "c", "o", "m">> \o <<" ">>),
             JsString(<<"u", "s", "e", "r", "@", "g", "m", "a", "i", "l", ".", "c", "o", "m">> \o <<" ">>) }

\* the strings over {a, b} of length at most n
RECURSIVE StringsUpTo(_)
StringsUpTo(n) ==
    IF n = 0 THEN { <<>> }
    ELSE StringsUpTo(n - 1)
           \cup { Append(s, c) : s \in StringsUpTo(n - 1), c \in {"a", "b"} }

\* the arguments of levenshteinDistance
LevStrings == StringsUpTo(MaxLevLen)

Pending(fn, args) ==
    [fn |-> fn, args |-> args, returned |-> FALSE, value |-> 0]

FunctionInit ==
    /\ pc = "idle"
    /\ email = JsUndefined
    /\ options = [checkMX |-> TRUE, checkSMTP |-> TRUE, maxAttempts |-> 2]
    /\ result = InitialResult(JsUndefined)
    /\ loop = NoLoop
    /\ smtpResult = NoVerdict
    /\ racer = NoRacer
    /\ probes = [p \in Range(ports) |-> NoProbe]
    /\ dnsCalls = 0
    /\ connected = <<>>
    /\ dataLeft = MaxData
    /\ call \in { Pending("suggestCorrection", <<e>>) : e \in TypoInputs }
                \cup { Pending("getDidYouMean", <<e>>) : e \in TypoInputs }
                \cup { Pending("levenshteinDistance", <<a, b>>) :
                         a \in LevStrings, b \in LevStrings }

\* the pending call of fn returns value
Returns(fn, value) ==
    /\ call.fn = fn
    /\ ~call.returned
    /\ call' = [call EXCEPT !.returned = TRUE, !.value = value]
    /\ UNCHANGED <<pc, email, options, result, loop, smtpResult, racer,
                   probes, dnsCalls, connected, dataLeft>>

CallSuggestCorrection ==
    /\ call.fn = "suggestCorrection"
    /\ \E v \in {suggestCorrection(call.args[1])} :
          Returns("suggestCorrection", v)

CallGetDidYouMean ==
    /\ call.fn = "getDidYouMean"
    /\ \E v \in {getDidYouMean(call.args[1])} :
          Returns("getDidYouMean", v)

CallLevenshteinDistance ==
    /\ call.fn = "levenshteinDistance"
    /\ \E v \in {levenshteinDistance(call.args[1], call.args[2])} :
          Returns("levenshteinDistance", v)

FunctionNext ==
    \/ CallSuggestCorrection
    \/ CallGetDidYouMean
    \/ CallLevenshteinDistance

FunctionSpec == FunctionInit /\ [][FunctionNext]_vars


(***************************************************************************)
(* Properties of verifyEmail.                                              *)
(***************************************************************************)
\* the call has returned its result object
Returned == pc = "returned"

\* the call has returned after the server loop obtained a verdict; smtpResult
\* is then the last verdict obtained
Classified == Returned /\ ~smtpResult.none

\* no probe has a socket or a timer left
AllProbesClosed ==
    \A p \in Range(ports) : ~Live(p) /\ probes[p].timer # "armed"

\* result, resultcode and subresult of the returned object
Triple(res) == <<res.result, res.resultcode, res.subresult>>

\* the subresult vocabulary of the documentation
Vocabulary ==
    { "invalid_syntax", "typo_detected", "no_mx_records", "dns_lookup_failed",
      "mailbox_exists", "mailbox_does_not_exist", "greylisted",
      "service_unavailable", "smtp_error", "unknown_response",
      "smtp_blocked_but_mx_valid", "syntax_and_mx_valid",
      "verification_error" }

\* C1: verifyEmail never throws or rejects; it returns an object whose
\* result, resultcode and subresult are populated, and an input that fails
\* the syntax validation yields result = invalid.
C1_NeverRejects ==
    /\ pc # "rejected"
    /\ Returned =>
          /\ result.result \in {"valid", "unknown", "invalid"}
          /\ result.resultcode \in {1, 3, 6}
          /\ result.subresult # ""
          /\ ~validateEmailSyntax(email).valid => result.result = "invalid"

\* C2: a call that is waiting for the resolver or for its probes eventually
\* returns a result, and every probe it started is settled and closed,
\* whatever the servers send or fail to send.
C2_EventuallyReturns ==
    (pc \in {"dns", "smtp"}) ~> (Returned /\ AllProbesClosed)

\* a call has returned although a server never closed its stream: a timer
\* had to end a probe
C2_Witness ==
    /\ Returned
    /\ AllProbesClosed
    /\ \E p \in Range(ports) : probes[p].timer = "fired"

\* C3: in a returned result, resultcode is the numeric alias of result:
\* valid iff 1, unknown iff 3, invalid iff 6, and no other value occurs.
C3_ResultcodeAlias ==
    Returned =>
      <<result.result, result.resultcode>> \in
          {<<"valid", 1>>, <<"unknown", 3>>, <<"invalid", 6>>}

\* a greylisted mailbox: the call returned unknown with code 3
C3_Witness ==
    /\ Classified
    /\ smtpResult.responseCode = 450
    /\ result.result = "unknown"
    /\ result.resultcode = 3

\* C4: in a returned result, for every combination of options and every
\* outcome of DNS and SMTP, subresult is one of the thirteen strings.
C4_SubresultInVocabulary == Returned => result.subresult \in Vocabulary

\* the classification that the last verdict alone gives
FromLastVerdict ==
    Classify(result, smtpResult.success, smtpResult.responseCode,
             smtpResult.message, smtpResult.allPortsBlocked)

\* C5: after the server loop the call classifies from the last verdict
\* only: result, resultcode and subresult are those its success,
\* responseCode and allPortsBlocked give, whatever earlier servers said.
C5_LastVerdictOnly ==
    Classified => Triple(result) = Triple(FromLastVerdict)

\* every probe of the last server ended without a response code
EveryProbeWithoutCode ==
    /\ Len(racer.results) = Len(ports)
    /\ \A k \in DOMAIN racer.results : racer.results[k].responseCode = 0

FailedWithCode(codes) ==
    /\ Classified
    /\ ~smtpResult.success
    /\ ~smtpResult.allPortsBlocked
    /\ smtpResult.responseCode \in codes

\* C7: a last verdict that failed with 550, 551, 552 or 553 gives invalid,
\* 6, mailbox_does_not_exist.
C7_MailboxDoesNotExist ==
    FailedWithCode({550, 551, 552, 553}) =>
      Triple(result) = <<"invalid", 6, "mailbox_does_not_exist">>

\* C8: a last verdict that failed with a code other than 421, 450, 451,
\* 452, 550, 551, 552, 553 gives unknown, 3, unknown_response.
C8_UnknownResponse ==
    FailedWithCode((0..999) \ {421, 450, 451, 452, 550, 551, 552, 553}) =>
      Triple(result) = <<"unknown", 3, "unknown_response">>

\* C9: a last verdict that failed with 450, 451 or 452 gives unknown, 3,
\* greylisted; with 421 it gives unknown, 3, service_unavailable.
C9_Greylisted ==
    /\ FailedWithCode({450, 451, 452}) =>
          Triple(result) = <<"unknown", 3, "greylisted">>
    /\ FailedWithCode({421}) =>
          Triple(result) = <<"unknown", 3, "service_unavailable">>

\* C10: a last verdict with success gives valid, 1, mailbox_exists, with
\* steps.smtp.valid true and verificationMethod smtp_verification.
C10_MailboxExists ==
    Classified /\ smtpResult.success =>
      /\ Triple(result) = <<"valid", 1, "mailbox_exists">>
      /\ result.steps.smtp.valid = "true"
      /\ result.verificationMethod = "smtp_verification"

\* the first server gave no verdict to stop at and the second one accepted
\* the recipient
C10_Witness ==
    /\ Classified
    /\ smtpResult.success
    /\ loop.i = 1
    /\ result.subresult = "mailbox_exists"

(***************************************************************************)
(* The stages before the server loop.                                      *)
(***************************************************************************)
\* the call made no DNS lookup
NoLookup == dnsCalls = 0

\* the call opened no SMTP connection
NoConnection == \A p \in Range(ports) : probes[p] = NoProbe

\* the call got past the construction of its result object
Started == pc \notin {"idle", "rejected"}

\* C11: when the syntax validator rejects the input, whatever the options
\* are, the call returns invalid, 6, invalid_syntax with the validator's
\* error recorded, and makes no DNS lookup and opens no SMTP connection.
C11_InvalidSyntaxStops ==
    Started /\ ~validateEmailSyntax(email).valid =>
      /\ Returned
      /\ Triple(result) = <<"invalid", 6, "invalid_syntax">>
      /\ result.error = validateEmailSyntax(email).error
      /\ NoLookup
      /\ NoConnection

\* a string without a domain was rejected although both network stages
\* were asked for
C11_Witness ==
    /\ Returned
    /\ email.type = "string"
    /\ ~validateEmailSyntax(email).valid
    /\ options.checkMX /\ options.checkSMTP /\ options.maxAttempts > 0
    /\ result.error = <<"Email must contain exactly one @ symbol (found ",
                        "0", ")">>

\* what C12 says of a call whose typo corrector suggested `suggested`
TypoAnswer(suggested) ==
    /\ Returned
    /\ Triple(result) = <<"invalid", 6, "typo_detected">>
    /\ result.didyoumean = suggested
    /\ result.verificationMethod = "typo_detection"
    /\ NoLookup
    /\ NoConnection

\* C12: when the typo corrector returns a suggestion that differs from the
\* trimmed input, the call returns invalid, 6, typo_detected with the
\* suggestion in didyoumean and verificationMethod typo_detection; the
\* decision is taken in the step of the call itself, and no DNS lookup and
\* no SMTP connection happens then or later.
C12_TypoStops ==
    /\ [][pc = "idle" /\ Started' =>
            \E e \in {email'} :
               validateEmailSyntax(e).valid =>
                 \E s \in {suggestCorrection(JsString(trim(e.str)))} :
                    ~s.isNull /\ s.suggested # trim(e.str) =>
                      TypoAnswer(s.suggested)']_vars
    /\ [](Returned /\ result.subresult = "typo_detected" =>
            NoLookup /\ NoConnection)

\* user@gmial.com was answered with user@gmail.com although both network
\* stages were asked for
C12_Witness ==
    /\ Returned
    /\ options.checkMX /\ options.checkSMTP /\ options.maxAttempts > 0
    /\ email.str = <<"u", "s", "e", "r", "@",
                     "g", "m", "i", "a", "l", ".", "c", "o", "m">>
    /\ result.didyoumean = <<"u", "s", "e", "r", "@",
                             "g", "m", "a", "i", "l", ".", "c", "o", "m">>

Trimmed == trim(email.str)

\* the typo corrector's answer s leaves the input as it is (line 381)
NoTypo(s) == s.isNull \/ s.suggested = Trimmed

\* the call returned and its input passed the syntax stage and, when
\* checkMX is on, the MX stage
PassedSyntaxAndMx ==
    /\ Returned
    /\ validateEmailSyntax(email).valid
    /\ options.checkMX => result.mxRecords # <<>>

\* C14: with checkSMTP off, an input that passes the syntax, typo and (with
\* checkMX) MX stages gives valid, 1, syntax_and_mx_valid by dns_lookup
\* with smtpChecked false, and no SMTP connection is opened.
C14_SkippedByConfig ==
    /\ Started /\ ~options.checkSMTP => NoConnection
    /\ ~options.checkSMTP /\ PassedSyntaxAndMx =>
          \E s \in {suggestCorrection(JsString(Trimmed))} :
             NoTypo(s) =>
               /\ Triple(result) = <<"valid", 1, "syntax_and_mx_valid">>
               /\ result.verificationMethod = "dns_lookup"
               /\ ~result.smtpChecked

\* MX records were found and the servers were not probed
C14_Witness ==
    /\ Returned
    /\ ~options.checkSMTP /\ options.checkMX
    /\ Len(result.mxRecords) = 2
    /\ result.subresult = "syntax_and_mx_valid"
    /\ NoConnection

\* C15: with checkMX off and checkSMTP on, an input that passes the syntax
\* and typo stages makes no DNS lookup and opens no SMTP connection, and
\* the call returns the classification the result was constructed with:
\* unknown, 3, with smtpChecked false.
C15_NeitherBranch ==
    Started /\ ~options.checkMX /\ options.checkSMTP
            /\ validateEmailSyntax(email).valid =>
      \E s \in {suggestCorrection(JsString(Trimmed))} :
         NoTypo(s) =>
           /\ Returned
           /\ Triple(result) = Triple(InitialResult(email))
           /\ result.result = "unknown"
           /\ result.resultcode = 3
           /\ ~result.smtpChecked
           /\ NoLookup
           /\ NoConnection

\* a call with a valid address came back unclassified
C15_Witness ==
    /\ Returned
    /\ ~options.checkMX /\ options.checkSMTP /\ options.maxAttempts > 0
    /\ result.steps.syntax.valid = "true"
    /\ result.didyoumean = Null
    /\ result.result = "unknown"
    /\ result.verificationMethod = "unknown"

(***************************************************************************)
(* The server loop.                                                        *)
(***************************************************************************)
\* the priority the resolver's answer gives to an exchanger
PriorityIn(ans, host) ==
    ans[CHOOSE k \in DOMAIN ans : ans[k].exchange = host].priority

\* list names every exchanger of the answer once, by ascending priority
AscendingPriority(ans, list) ==
    /\ Len(list) = Len(ans)
    /\ \A k \in DOMAIN ans : \E j \in DOMAIN list : list[j] = ans[k].exchange
    /\ \A i, j \in DOMAIN list :
          i < j => PriorityIn(ans, list[i]) <= PriorityIn(ans, list[j])

\* the connections so far went to the servers of the list in the list's
\* order, three to each, one for every port
InListOrder ==
    \A k \in DOMAIN connected :
       /\ ((k - 1) \div 3) + 1 \in DOMAIN result.mxRecords
       /\ connected[k].host = result.mxRecords[((k - 1) \div 3) + 1]
       /\ connected[k].port = ports[((k - 1) % 3) + 1]

\* C16: with checkSMTP on and a non-empty MX list the call probes the
\* exchangers in ascending order of MX priority, each at most once, and at
\* most min(maxAttempts, number of MX records) of them, so it opens at most
\* 3 * min(maxAttempts, number of MX records) connections.
C16_ServersInPriorityOrder ==
    /\ [][\A ans \in MxAnswers :
            DnsAnswer(ans) => AscendingPriority(ans, result'.mxRecords)]_vars
    /\ [](/\ InListOrder
          /\ Len(connected) <= 3 * options.maxAttempts
          /\ Len(connected) <= 3 * Len(result.mxRecords))

\* both servers of an answer were probed, the one of lower priority value
\* first although the answer named it second
C16_Witness ==
    /\ Returned
    /\ options.maxAttempts = 2
    /\ Len(connected) = 6
    /\ connected[1].host = "mx2.example.com"
    /\ connected[4].host = "mx1.example.com"

\* a step in which verifyWithSMTP delivers its verdict to the loop
VerdictStep ==
    /\ pc = "smtp"
    /\ pc' = "returned" \/ Len(connected') > Len(connected)

\* the number of servers the loop has tried
Tried == Len(connected) \div 3

\* the step opens the connections to the next server of the list and to
\* no other
ProbesNextServer ==
    /\ pc' = "smtp"
    /\ Len(connected') = Len(connected) + 3
    /\ SubSeq(connected', 1, Len(connected)) = connected
    /\ \A k \in Len(connected) + 1 .. Len(connected') :
          connected'[k].host = result.mxRecords[Tried + 1]

\* C17: the server loop stops at the first verdict that is a success or
\* has a code in 550-599, and no later exchanger is probed; after any other
\* verdict the next exchanger is probed as long as fewer than
\* min(maxAttempts, number of MX records) have been tried.
C17_LoopStopsAtDefinitive ==
    /\ [][VerdictStep =>
            IF smtpResult'.success
                 \/ (smtpResult'.responseCode >= 550
                       /\ smtpResult'.responseCode < 600)
            THEN pc' = "returned" /\ connected' = connected
            ELSE IF Tried < options.maxAttempts
                      /\ Tried < Len(result.mxRecords)
                 THEN ProbesNextServer
                 ELSE pc' = "returned" /\ connected' = connected]_vars
    /\ [][Returned => connected' = connected]_vars

\* the loop stopped at a 55x verdict of the first server with a second
\* server left to try
C17_Witness ==
    /\ Returned
    /\ options.maxAttempts = 2
    /\ Len(result.mxRecords) = 2
    /\ Len(connected) = 3
    /\ ~smtpResult.none
    /\ ~smtpResult.success
    /\ smtpResult.responseCode >= 550

\* the number of assignments to a field in a sequence of assignments
TimesAssigned(field, assignments) ==
    Cardinality({k \in DOMAIN assignments : assignments[k] = field})

\* C18: in a call no field of (result, resultcode, subresult) is assigned a
\* second time once the classification after the server loop has begun to
\* assign the triple: each field is assigned at most once before the return.
C18_TripleAssignedOnce ==
    Classified =>
      \A field \in {"result", "resultcode", "subresult"} :
         TimesAssigned(field,
                       TripleAssignments(loop.smtpSuccess,
                                         loop.lastResponseCode,
                                         loop.smtpBlocked)) <= 1

(***************************************************************************)
(* verifyWithSMTP: the race of the three probes.                           *)
(***************************************************************************)
\* an outcome that decides the race by itself
Wins(outcome) ==
    outcome.success \/ (outcome.responseCode >= 550 /\ outcome.responseCode < 600)

\* the verdict is the given outcome
VerdictIs(v, outcome) ==
    /\ ~v.none
    /\ v.success = outcome.success
    /\ v.responseCode = outcome.responseCode
    /\ v.port = outcome.port

\* C19: the first outcome, in the order the probes complete, that is a
\* success or has a code in 550-599 becomes the verdict in the step it
\* arrives in, whatever probes are still in flight; the outcomes of probes
\* that complete later are discarded and change nothing, and the verdict is
\* delivered exactly once.
C19_FirstWinnerDecides ==
    /\ [][\A p \in Range(ports) :
            pc = "smtp" /\ ~racer.resolved /\ End(p)
                /\ Wins(EndOutcome(probes[p], p)) =>
              /\ VerdictIs(smtpResult', EndOutcome(probes[p], p))
              /\ racer'.resolved
              /\ racer'.delivered = 1
              /\ pc' = "returned"]_vars
    /\ [][racer.resolved =>
            /\ smtpResult' = smtpResult
            /\ racer' = racer
            /\ result' = result
            /\ pc' = pc]_vars
    /\ [](/\ racer.delivered <= 1
          /\ \A k \in DOMAIN racer.results :
                Wins(racer.results[k]) =>
                  /\ k = Len(racer.results)
                  /\ racer.resolved
                  /\ racer.delivered = 1
                  /\ VerdictIs(smtpResult, racer.results[k])
          /\ Classified => racer.delivered = 1)

\* a 55x answer on one port decided the race while two probes were in
\* flight; both completed later and the verdict is still that of the first
C19_Witness ==
    /\ Returned
    /\ racer.resolved
    /\ Len(racer.results) = 1
    /\ racer.results[1].responseCode >= 550
    /\ AllProbesClosed
    /\ VerdictIs(smtpResult, racer.results[1])

\* the first of the outcomes with a nonzero response code, or the first
\* outcome when every code is 0
FirstWithCode(results) ==
    LET withCode == {k \in DOMAIN results : results[k].responseCode # 0}
    IN  IF withCode = {} THEN results[1]
        ELSE results[CHOOSE k \in withCode : \A j \in withCode : k <= j]

\* C20: when the three probes have finished and none is a success or has a
\* code in 550-599, the verdict carries the success flag and the response
\* code of the first finished outcome with a nonzero response code, or of
\* the first finished outcome when all codes are 0.
C20_BestOfFinished ==
    /\ Classified
    /\ Len(racer.results) = Len(ports)
    /\ \A k \in DOMAIN racer.results : ~Wins(racer.results[k])
    => /\ smtpResult.success = FirstWithCode(racer.results).success
       /\ smtpResult.responseCode = FirstWithCode(racer.results).responseCode

\* the first probe to finish had no code, the two after it had different
\* codes, and the verdict carries the code of the second
C20_Witness ==
    /\ Classified
    /\ Len(racer.results) = Len(ports)
    /\ racer.results[1].responseCode = 0
    /\ racer.results[2].responseCode \in 400..549
    /\ racer.results[3].responseCode \in 400..549
    /\ racer.results[2].responseCode # racer.results[3].responseCode
    /\ smtpResult.responseCode = racer.results[2].responseCode

\* C21: in every verdict of verifyWithSMTP, early or after all probes,
\* allPortsBlocked is true exactly when every port's probe ended with
\* response code 0; so a blocked verdict is a failure with code 0 and a
\* success is never blocked.
C21_BlockedIffNoCodes ==
    Classified =>
      /\ smtpResult.allPortsBlocked <=>
            /\ Len(racer.results) = Len(ports)
            /\ \A k \in DOMAIN racer.results : racer.results[k].responseCode = 0
      /\ smtpResult.allPortsBlocked =>
            ~smtpResult.success /\ smtpResult.responseCode = 0
      /\ smtpResult.success => ~smtpResult.allPortsBlocked

\* a success on one port won after another port had ended without a code
C21_Witness ==
    /\ Classified
    /\ racer.resolved
    /\ Len(racer.results) = 2
    /\ racer.results[1].responseCode = 0
    /\ smtpResult.success
    /\ ~smtpResult.allPortsBlocked

\* the probe of port p has finished: its promise is resolved, its socket
\* delivers no more events and its timer is not pending
Finished(p) ==
    /\ probes[p].settled
    /\ ~Live(p)
    /\ probes[p].timer # "armed"

\* the step is an event of the probe of port p that can complete it
Completes(p) ==
    \/ End(p)
    \/ \E cause \in SocketErrors : Error(p, cause)
    \/ Timeout(p)
    \/ \E response \in ServerResponses : Data(p, response)

\* C22: the servers are probed strictly one after the other: connections
\* to the next server are opened only in the step in which the last probe
\* of the current server completes, when its other probes have finished.
C22_OneServerAtATime ==
    [][connected # <<>> /\ Len(connected') > Len(connected) =>
          \E p \in Range(ports) :
             /\ ~Finished(p)
             /\ Completes(p)
             /\ \A q \in Range(ports) \ {p} : Finished(q)]_vars

\* the probes of the second server were started after the first server
\* answered 4xx on one port and its other ports had ended
C22_Witness ==
    /\ pc = "smtp"
    /\ Len(connected) = 6
    /\ connected[4].host # connected[3].host
    /\ loop.lastResponseCode \in 400..499
    /\ \A p \in Range(ports) : probes[p] = NewProbe

(***************************************************************************)
(* The pure functions: the syntax validator, the typo table, the distance. *)
(***************************************************************************)
\* the message names the rule of exactly one @
MentionsAtRule(error) ==
    includes(error, "Email must contain exactly one @ symbol (found ")

\* C23: for every input string whose number of @ characters is not one,
\* validateEmailSyntax returns valid = false with an error message that
\* mentions the rule of exactly one @.
C23_AtCountRule ==
    Started /\ email.type = "string" /\ CountChar(email.str, "@") # 1 =>
      /\ ~validateEmailSyntax(email).valid
      /\ MentionsAtRule(validateEmailSyntax(email).error)

\* the corrections of the typo table: gmail.com, yahoo.com, hotmail.com,
\* outlook.com, google.com, icloud.com, protonmail.com, aol.com
CorrectDomains == { COMMON_TYPOS[k][2] : k \in DOMAIN COMMON_TYPOS }

\* a direct call of fn has returned
Called(fn) == call.fn = fn /\ call.returned

\* the argument is an address whose domain is s
HasDomain(e, s) ==
    /\ e.type = "string"
    /\ CountChar(e.str, "@") = 1
    /\ split(e.str, "@")[2] = s

\* C24: suggestCorrection and getDidYouMean return null for every email
\* whose domain is one of the correct domains of the typo table, and a
\* suggestion that is not null is never equal to the input email.
C24_NullForCorrectDomains ==
    /\ Called("suggestCorrection") =>
          /\ (\E d \in CorrectDomains : HasDomain(call.args[1], d))
                => call.value.isNull
          /\ ~call.value.isNull => call.value.suggested # call.args[1].str
    /\ Called("getDidYouMean") =>
          /\ (\E d \in CorrectDomains : HasDomain(call.args[1], d))
                => call.value = Null
          /\ call.value # Null => call.value # call.args[1].str

\* the entries of the table that qualify for a domain: distance at most 2
\* and a correction that differs from the domain
Qualifying(domain) ==
    { k \in DOMAIN COMMON_TYPOS :
         /\ levenshteinDistance(domain, COMMON_TYPOS[k][1]) <= 2
         /\ COMMON_TYPOS[k][2] # domain }

\* the first entry in table order among those of minimum distance
FirstClosest(domain) ==
    CHOOSE k \in Qualifying(domain) :
       \A j \in Qualifying(domain) :
          LET dk == levenshteinDistance(domain, COMMON_TYPOS[k][1])
              dj == levenshteinDistance(domain, COMMON_TYPOS[j][1])
          IN  dk < dj \/ (dk = dj /\ k <= j)

\* C25: for a domain that is not a key of the typo table, suggestCorrection
\* returns the qualifying entry of minimum distance, the first in table
\* order among those tied at the minimum, and null when none qualifies.
C25_FirstClosestEntry ==
    Called("suggestCorrection") /\ call.args[1].type = "string"
        /\ includes(call.args[1].str, "@") =>
      LET localPart == split(call.args[1].str, "@")[1]
          domain == split(call.args[1].str, "@")[2]
      IN  TypoLookup(domain) = Null =>
            IF Qualifying(domain) = {}
            THEN call.value.isNull
            ELSE /\ ~call.value.isNull
                 /\ call.value.suggested =
                       localPart \o <<"@">>
                         \o COMMON_TYPOS[FirstClosest(domain)][2]
                 /\ call.value.distance =
                       levenshteinDistance(
                           domain, COMMON_TYPOS[FirstClosest(domain)][1])

\* The classic Levenshtein distance: the least number of insertions,
\* deletions and substitutions of one character that turn a into b.
RECURSIVE EditDistance(_, _)
EditDistance(a, b) ==
    IF a = <<>> THEN Len(b)
    ELSE IF b = <<>> THEN Len(a)
    ELSE LET delete == EditDistance(Tail(a), b) + 1
             insert == EditDistance(a, Tail(b)) + 1
             keepOrSubstitute ==
                 EditDistance(Tail(a), Tail(b))
                   + (IF Head(a) = Head(b) THEN 0 ELSE 1)
         IN  Min3(delete, insert, keepOrSubstitute)

C27_Symmetric ==
    Called("levenshteinDistance") =>
      call.value = levenshteinDistance(call.args[2], call.args[1])

\* arguments of different lengths, neither a prefix of the other
C27_Witness ==
    /\ Called("levenshteinDistance")
    /\ call.args = << <<"a", "a", "b">>, <<"b", "a">> >>
    /\ call.value = levenshteinDistance(<<"b", "a">>, <<"a", "a", "b">>)
    /\ call.value = 2

(***************************************************************************)
(* tryPort: the dialogue of one probe.                                     *)
(***************************************************************************)
\* the port on which the server of DialogueSpec answers
DialoguePort == ports[1]

\* the status code the data handler reads in a response (lines 183-184)
CodeOf(response) == parseInt(substring3(trim(response)))

\* the last line the probe has sent, <<>> when it has sent none
LastWritten(pr) ==
    IF pr.written = <<>> THEN <<>> ELSE pr.written[Len(pr.written)]

\* the data event makes the probe send `line` and nothing else
Sends(p, line) == probes'[p].written = Append(probes[p].written, line)

\* C28: the prober advances on the status code alone: after it sent EHLO
\* any 250 response makes it send MAIL FROM, and after it sent MAIL FROM
\* any 250 response makes it send RCPT TO for the address, whatever the
\* text of the response.
C28_AdvancesOnCodeAlone ==
    [][\A response \in ServerResponses :
          Data(DialoguePort, response) /\ probes[DialoguePort].sock = "open"
              /\ CodeOf(response) = 250 =>
            /\ LastWritten(probes[DialoguePort]) = EHLO
                  => Sends(DialoguePort, MAIL_FROM)
            /\ LastWritten(probes[DialoguePort]) = MAIL_FROM
                  => Sends(DialoguePort, RCPT_TO(trim(email.str)))]_vars

\* C29: after the prober sent RCPT TO, any reply with a code in 200-299
\* makes it record that code as a success and send QUIT, and its outcome
\* after a normal close is success = true with that code.
C29_AnyTwoHundredAccepts ==
    [][\A response \in ServerResponses :
          Data(DialoguePort, response) /\ probes[DialoguePort].sock = "open"
              /\ LastWritten(probes[DialoguePort]) = RCPT_TO(trim(email.str))
              /\ CodeOf(response) \in 200..299 =>
            /\ probes'[DialoguePort].responseCode = CodeOf(response)
            /\ Sends(DialoguePort, QUIT)
            /\ EndOutcome(probes'[DialoguePort], DialoguePort).success
            /\ EndOutcome(probes'[DialoguePort], DialoguePort).responseCode
                  = CodeOf(response)]_vars

\* C30: in any state of the dialogue a response with a code in 400-599
\* makes the prober record that code and the response as a failure and
\* send QUIT, and the outcome after a normal close is that failure.
C30_FailureRecorded ==
    [][\A response \in ServerResponses :
          Data(DialoguePort, response) /\ CodeOf(response) \in 400..599 =>
            /\ probes'[DialoguePort].responseCode = CodeOf(response)
            /\ probes'[DialoguePort].responseMessage = trim(response)
            /\ Sends(DialoguePort, QUIT)
            /\ ~probes'[DialoguePort].settled
            /\ EndOutcome(probes'[DialoguePort], DialoguePort)
                  = Outcome(FALSE, CodeOf(response), trim(response),
                            DialoguePort)]_vars

\* the probes other than p are as they were
SiblingsUntouched(p) ==
    \A q \in Range(ports) \ {p} : probes'[q] = probes[q]

\* Probe p ends in this step with an outcome of code 0 and the message
\* `message`: its promise is resolved, its socket is gone, the racer takes
\* the outcome unless it has delivered already, the call does not reject,
\* and no other probe is touched.
EndsWithoutCode(p, message) ==
    /\ probes'[p].settled
    /\ probes'[p].sock = "closed"
    /\ ~racer.resolved =>
          racer'.results
            = Append(racer.results,
                     [success |-> FALSE, responseCode |-> 0,
                      message |-> message, port |-> p])
    /\ pc' # "rejected"
    /\ SiblingsUntouched(p)

\* C31: in any state of the dialogue a transport error or the expiry of
\* the probe's timer ends the probe with success = false, responseCode = 0
\* and a message that names the cause; nothing is thrown, and a timeout
\* leaves the sibling probes as they are.
C31_ErrorsAbsorbed ==
    [][\A p \in Range(ports) :
          probes'[p].settled /\ ~probes[p].settled =>
            /\ \A cause \in SocketErrors :
                  Error(p, cause) =>
                    EndsWithoutCode(p, <<"Port ", ToString(p), ": ", cause>>)
            /\ Timeout(p) =>
                  EndsWithoutCode(p, <<"Port ", ToString(p), ": timeout">>)]_vars

\* the timer of port 25 fired after the probe had sent RCPT TO and recorded
\* a 250: the outcome has code 0, the probe of port 587 is still running
C31_Witness ==
    /\ probes[DialoguePort].timer = "fired"
    /\ probes[DialoguePort].responseCode = 250
    /\ racer.results = <<TimeoutOutcome(DialoguePort)>>
    /\ probes[ports[2]].sock = "open"
    /\ probes[ports[2]].timer = "armed"
    /\ pc = "smtp"

\* the connections opened for port p
ConnectionsOf(p) == { k \in DOMAIN connected : connected[k].port = p }

\* C32: one probe opens exactly one connection and writes at most 4
\* command lines on it, whatever the server sends.
C32_OneConnectionFourLines ==
    \A p \in Range(ports) :
       probes[p].sock # "none" =>
         /\ Cardinality(ConnectionsOf(p)) = 1
         /\ Len(probes[p].written) <= 4

\* C33: every connection a probe opened is closed in the end, on every
\* exit path: after a 221 reply, after the server closed the stream, after
\* a transport error, after the timeout, and for the probes the racer
\* abandoned when another port won.  (Whenever a connection is open, a
\* state follows in which no connection of the call is open.)
C33_EventuallyClosed ==
    (\E p \in Range(ports) : probes[p].sock \in {"open", "ended"})
      ~> (\A p \in Range(ports) : probes[p].sock = "closed")

\* port 25 won with a success and the call returned; the abandoned probes
\* of ports 587 and 465 were closed afterwards by their timers
C33_Witness ==
    /\ pc = "returned"
    /\ smtpResult.success
    /\ smtpResult.port = ports[1]
    /\ racer.results = <<EndOutcome(probes[ports[1]], ports[1])>>
    /\ probes[ports[2]].timer = "fired"
    /\ probes[ports[3]].timer = "fired"
    /\ \A p \in Range(ports) : probes[p].sock = "closed"

\* the outcome the racer took in this step
Taken == LastResult(racer'.results)

\* C34: when the server closes the stream before the prober recorded a
\* code (it has sent no QUIT), the outcome is success = false with
\* responseCode = 0; when it closes after QUIT, the outcome carries the
\* recorded code, and success exactly when that code is a 2xx.
C34_CloseFinalizesRecorded ==
    [][\A p \in Range(ports) :
          End(p) /\ ~racer.resolved =>
            /\ Taken.port = p
            /\ IF QUIT \in Range(probes[p].written)
               THEN /\ Taken.responseCode = probes[p].responseCode
                    /\ Taken.responseCode \in 200..599
                    /\ Taken.success = (Taken.responseCode \in 200..299)
               ELSE /\ ~Taken.success
                    /\ Taken.responseCode = 0]_vars

\* the server closed port 587 before it said anything, and port 25 after
\* the QUIT that followed its 450
C34_Witness ==
    /\ Len(racer.results) = 2
    /\ racer.results[1] = Outcome(FALSE, 0, <<>>, ports[2])
    /\ racer.results[2].port = DialoguePort
    /\ racer.results[2].responseCode = 450
    /\ ~racer.results[2].success
    /\ probes[DialoguePort].written = <<QUIT>>
    /\ probes[DialoguePort].timer = "cleared"

\* C35: a probe reports success = true only if it has sent RCPT TO for the
\* address: every successful outcome the racer took comes from a probe
\* that wrote that command.
C35_SuccessNeedsRcptTo ==
    \A k \in DOMAIN racer.results :
       racer.results[k].success =>
         RCPT_TO(trim(email.str))
           \in Range(probes[racer.results[k].port].written)

\* the place of a command line in the protocol order
ProtocolRank(line) ==
    IF line = EHLO THEN 1
    ELSE IF line = MAIL_FROM THEN 2
    ELSE IF line = QUIT THEN 4
    ELSE 3

\* C36: a probe writes its commands in the order EHLO, MAIL FROM, RCPT TO,
\* QUIT, each at most once, MAIL FROM only after EHLO and RCPT TO only
\* after MAIL FROM, whatever the server sends.
C36_ProtocolOrder ==
    \A p \in Range(ports) :
       LET written == probes[p].written
       IN  /\ \A j, k \in DOMAIN written :
                j < k => ProtocolRank(written[j]) < ProtocolRank(written[k])
           /\ MAIL_FROM \in Range(written) => EHLO \in Range(written)
           /\ RCPT_TO(trim(email.str)) \in Range(written)
                 => MAIL_FROM \in Range(written)

\* probe p has recorded a code and sent QUIT
Recorded(p) ==
    /\ probes[p].responseCode # 0
    /\ QUIT \in Range(probes[p].written)

\* C37: once a probe has recorded a code and sent QUIT, a further response
\* leaves the recorded code as it is, and the outcome of the probe carries
\* that code and its success flag, whether the stream ends, fails, or the
\* timer fires first.
C37_RecordedCodeIsFinal ==
    [][\A p \in Range(ports) :
          Recorded(p) /\ ~probes[p].settled =>
            /\ probes'[p].responseCode = probes[p].responseCode
            /\ probes'[p].settled /\ ~racer.resolved =>
                 /\ Taken.port = p
                 /\ Taken.responseCode = probes[p].responseCode
                 /\ Taken.success = (probes[p].responseCode \in 200..299)]_vars

(***************************************************************************)
(* verifyEmail: the blocked flag of the result.                            *)
(***************************************************************************)
\* C38: in every result verifyEmail returns, smtpBlocked is true only when
\* the result was classified through the blocked fallback (subresult
\* smtp_blocked_but_mx_valid, method dns_lookup_fallback), and a result
\* with subresult mailbox_exists has smtpBlocked = false.
C38_BlockedOnlyInFallback ==
    pc = "returned" =>
      /\ result.smtpBlocked =>
           /\ result.subresult = "smtp_blocked_but_mx_valid"
           /\ result.verificationMethod = "dns_lookup_fallback"
      /\ result.subresult = "mailbox_exists" => ~result.smtpBlocked

(***************************************************************************)
(* verifyWithSMTP: the order in which the probes complete.                 *)
(***************************************************************************)
\* C39: when the outcomes of the ports of one exchanger hold a success and
\* no code in 550-599, the verdict of verifyWithSMTP has success = true
\* and allPortsBlocked = false, in whatever order the probes completed.
C39_SuccessInAnyOrder ==
    /\ ~smtpResult.none
    /\ \E k \in DOMAIN racer.results : racer.results[k].success
    /\ \A k \in DOMAIN racer.results :
          ~(racer.results[k].responseCode \in 550..599)
    => /\ smtpResult.success
       /\ ~smtpResult.allPortsBlocked

\* port 25 completed first with a 450, port 587 then with the success
C39_Witness ==
    /\ ~smtpResult.none
    /\ Len(racer.results) = 2
    /\ racer.results[1].port = ports[1]
    /\ racer.results[1].responseCode = 450
    /\ racer.results[2].port = ports[2]
    /\ racer.results[2].success
    /\ smtpResult.success
    /\ smtpResult.port = ports[2]
    /\ ~smtpResult.allPortsBlocked

====
